---------------------------- MODULE Spec2Model ----------------------------
(***************************************************************************)
(* Authentication security state machine of the portfolio site:            *)
(* apps/accounts (User lockout counters, SecureLoginForm, the two          *)
(* authentication backends, LoginView and the LoginHistory audit table,    *)
(* RateLimitMiddleware, and the admin-moderated password reset:            *)
(* PasswordResetRequestForm and View, PasswordResetRequest.approve and     *)
(* reject, and the admin actions that call them).                          *)
(*                                                                         *)
(* Database time is counted in whole minutes, the time of the rate limiter *)
(* in seconds.  A request is a process that runs its view statement by     *)
(* statement, one database statement per step, so that requests of         *)
(* different clients can interleave (Spec, SpecReset) or run one after the *)
(* other (SpecSeq, SpecResetSeq).                                          *)
(***************************************************************************)
EXTENDS Integers, Sequences, FiniteSets, Bags, TLC

(***************************************************************************)
(* Bounds of the model.                                                    *)
(***************************************************************************)
MaxAttempts == 3
MaxOverlapping == 2
MaxTime == 10
TickMinutes == 5
MaxFailed == 12
MaxCalls == 7
MaxTicks == 2
MaxPosts == 3
MaxSubmits == 3
MaxStaffRuns == 2
MaxOverlapSubmits == 2
MaxContacts == 6
MaxWaits == 2

\* edit requests to a job post, and admin actions on it
MaxEdits == 3

MaxReviews == 2

\* advances of the clock the lockout message is computed against
MaxAdvances == 6

\* calls of _is_rate_limited that run step by step
MaxRacingCalls == 5

\* requests handed to RateLimitMiddleware.__call__ with the URL already resolved
MaxResolved == 4

\* failed logins recorded on the account while its reset requests are handled
MaxLockFailures == 6

\* days that pass after a temporary password was issued
MaxDays == 1

\* reset submissions and logins of the account holder around a temporary password
MaxTempSubmits == 1

MaxTempLogins == 2

(***************************************************************************)
(* Values.                                                                 *)
(***************************************************************************)
Procs == {"c1", "c2"}

NoTime == -1
NoUser == "None"

AccountEmail == "a@x.io"
RawEmails == {"a@x.io", " A@x.io ", "z@x.io"}
Passwords == {"pw1", "bad"}

ClientIP(p) == IF p = "c1" THEN "10.0.0.1" ELSE "10.0.0.2"

\* str.strip() on the strings of the model
Strip(s) ==
    CASE s = " A@x.io " -> "A@x.io"
      [] s = " a@x.io " -> "a@x.io"
      [] OTHER -> s

\* str.lower() on the strings of the model
Lower(s) ==
    CASE s = " A@x.io " -> " a@x.io "
      [] s = "A@x.io" -> "a@x.io"
      [] OTHER -> s

\* make_password / check_password: a one-way hash of the raw password
make_password(raw) == <<"hash", raw>>
check_password(raw, hashed) == hashed = make_password(raw)

Min(a, b) == IF a < b THEN a ELSE b

(***************************************************************************)
(* Values of the password reset workflow.                                  *)
(***************************************************************************)
Staffs == {"s1", "s2"}

\* the reason field of the form: one long enough, one shorter than ten characters
Reasons == {"I forgot my password", "forgot"}

\* timedelta(hours=24), in minutes
TempValidMinutes == 24 * 60

\* the n-th temporary password drawn by the admin action: sixteen random
\* characters, taken to differ from every password drawn or chosen before
TempPassword(n) == "tmp" \o ToString(n)

\* reject_requests passes this reason
RejectReason == "Request rejected by administrator."

NoForm == [pc |-> "idle", email |-> "", reason |-> "", user |-> NoUser, res |-> "none"]

NoAdmin == [pc |-> "idle", action |-> "none", todo |-> <<>>, shown |-> ""]

(***************************************************************************)
(* Values of the contact form.                                             *)
(***************************************************************************)
\* contact/forms.py:23: maximum submissions per IP per hour
RATE_LIMIT_PER_HOUR == 5

\* timedelta(hours=1), in minutes
HourMinutes == 60

\* get_client_ip of the requests to the contact form; the empty one stands
\* for an address that could not be determined
ContactIPs == {"10.0.0.1", ""}

\* the message field: an ordinary message, and one with a spam keyword
Messages == {"I would like to talk about a project", "you are a lottery winner"}

\* minutes that pass between two submissions
WaitSteps == {30, 31}

NoReply == [ip |-> "", ajax |-> FALSE, at |-> NoTime, status |-> 0]

(***************************************************************************)
(* Values of the lockout message.                                          *)
(***************************************************************************)
\* seconds that pass between two readings of the clock
SecondSteps == {1, 59, 60}

\* seconds that pass between the two calls of timezone.now() in models.py:194-195
Skews == {0, 1}

\* failed_login_attempts after the failure that locks: 5 and 10 minutes
LockingCounts == {5, 6}

NoRemaining == [seconds |-> 0, locked |-> FALSE, minutes |-> -1]

(***************************************************************************)
(* Values of the job board.                                                *)
(***************************************************************************)
\* the users who request the edit page: the one who posted the job, and another
JobOwner == "u1"

JobUsers == {"u1", "u2"}

\* the title field of the edit form: two that pass clean_title, one that does not
Titles == {"Backend Developer", "Senior Backend Developer", "<Backend>"}

\* jobs/forms.py:231-245 with jobs/views.py:82: the row CreateJobView stores
NewJob == [title |-> "Backend Developer", status |-> "pending", rejection_reason |-> "",
           reviewed_by |-> NoUser, reviewed_at |-> NoTime, posted_by |-> JobOwner]

NoEdit == [pc |-> "idle", user |-> NoUser, title |-> "", inst |-> NewJob, res |-> "none"]

NoReview == [pc |-> "idle", action |-> "none", inst |-> NewJob, count |-> 0]

(***************************************************************************)
(* Values of the request rate limiter.                                     *)
(***************************************************************************)
\* middleware.py:41-45: limit and window (seconds) of each limited endpoint
RATE_LIMITS ==
    [e \in {"accounts:login", "accounts:register", "accounts:password_reset_request"} |->
        IF e = "accounts:login" THEN [limit |-> 5, window |-> 60]
        ELSE [limit |-> 3, window |-> 3600]]

\* the URL names requests are addressed to; logout is not a limited one
UrlNames == DOMAIN RATE_LIMITS \cup {"accounts:logout"}

IPs == {"10.0.0.1", "10.0.0.2"}

\* f"rate_limit:{endpoint}:{ip}"
CacheKey(endpoint, ip) == <<"rate_limit", endpoint, ip>>

CacheKeys == {CacheKey(e, ip) : e \in DOMAIN RATE_LIMITS, ip \in IPs}

\* cache.get of a key that is absent: None
Nothing == [count |-> 0, start |-> NoTime, expires |-> NoTime]

\* request.resolver_match before the URL has been resolved, and _get_url_name of it
NoMatch == "None"

\* seconds by which the clock of the limiter advances between two requests:
\* no two readings of the clock are exactly a window apart
RateSteps == {2, 3599}

\* status of a response the view produced, whatever it is
ViewStatus == 0

\* request.resolver_match of a request whose URL was resolved before the
\* middleware is called
ResolvedNames == {"accounts:register", "core:home"}

\* a request that is not inside _is_rate_limited
NoCall == [pc |-> "idle", endpoint |-> "", ip |-> "", data |-> Nothing]

NoHttp == [method |-> "", url_name |-> "", ip |-> "", ajax |-> FALSE, status |-> ViewStatus,
           reached_view |-> FALSE]

VARIABLES
    now,          \* timezone.now(), in minutes
    users,        \* the User table: email -> row
    history,      \* the LoginHistory table: a bag of rows
    pc,           \* position of each request in LoginView.post
    req,          \* request.POST of each request: email, password
    user_cache,   \* SecureLoginForm.user_cache
    user_obj,     \* the User instance loaded at forms.py:241
    res,          \* what the caller is shown
    logged,       \* the LoginHistory row the request wrote
    pre,          \* the account row when the request arrived
    t0,           \* the time the request arrived
    session,      \* request.user.is_authenticated of each client
    attempts,     \* number of credential submissions evaluated so far
    time,         \* time.time(), in seconds
    ticks,        \* number of advances of time so far
    cache,        \* the cache: key -> the stored dict and the time it expires
    calls,        \* the calls of _is_rate_limited so far, by key: time, verdict
    http,         \* the last request that went through RateLimitMiddleware
    posts,        \* number of requests that went through RateLimitMiddleware
    requests,     \* the PasswordResetRequest table: pk -> row
    retired,      \* the password hashes the account has had before the current one
    form,         \* PasswordResetRequestView.post of each client: position, form, response
    admin,        \* the admin action each staff member runs: position, instances fetched
    submits,      \* number of reset submissions so far
    runs,         \* number of admin actions started so far
    submissions,  \* the ContactSubmission table: rows in order of creation
    reply,        \* the last answer of contact_submit: address, time, status
    contacts,     \* number of requests to contact_submit so far
    waited,       \* number of waits between them so far
    job,          \* the JobPost row
    edit,         \* EditJobView.post of each client: position, instance, response
    review,       \* the job admin action each staff member runs: position, instance
    edits,        \* number of edit requests so far
    reviews,      \* number of job admin actions so far
    clock,        \* timezone.now() where get_lockout_remaining is asked, in seconds
    lock_until,   \* lockout_until of the account asked about, in seconds
    remaining,    \* the last answer of get_lockout_remaining, with the seconds left then
    advances,     \* number of advances of clock so far
    inflight      \* _is_rate_limited of each request between cache.get and cache.set

ratevars == <<time, ticks, cache, calls, http, posts>>

\* what LoginView and the user admin leave alone
resetvars == <<requests, retired, form, admin, submits, runs>>

contactvars == <<submissions, reply, contacts, waited>>

jobvars == <<job, edit, review, edits, reviews>>

remainvars == <<clock, lock_until, remaining, advances>>

\* the state of the apps other than accounts
sitevars == <<contactvars, jobvars, remainvars, inflight>>

\* what LoginView and the user admin leave alone
nonlogin == <<ratevars, resetvars, sitevars>>

vars == <<now, users, history, pc, req, user_cache, user_obj, res, logged,
          pre, t0, session, attempts, ratevars, resetvars, sitevars>>

procvars == <<pc, req, user_cache, user_obj, res, logged, pre, t0, session, attempts>>

(***************************************************************************)
(* The User row and its methods.                                           *)
(***************************************************************************)
NewUser(password) ==
    [is_active |-> TRUE,
     password |-> make_password(password),
     failed_login_attempts |-> 0,
     lockout_until |-> NoTime,
     last_login |-> NoTime,
     last_login_ip |-> "None",
     last_password_change |-> NoTime]

\* User.objects.get(email=...): the key of the row, or NoUser (DoesNotExist)
GetUser(tbl, email) == IF email \in DOMAIN tbl THEN email ELSE NoUser

\* models.py:170: the number of failed attempts that locks the account
LockThreshold == 5

\* User.is_locked
is_locked(u, t) == u.lockout_until # NoTime /\ u.lockout_until > t

\* record_failed_login with a constant lockout instead of the doubling one
LockoutMinutes_flat(n) == 5

\* record_failed_login with the cap of 60 minutes left out
LockoutMinutes_uncapped(n) == 5 * (2 ^ (n - 5))

\* lockout_minutes of User.record_failed_login
LockoutMinutes(n) == Min(5 * (2 ^ (n - 5)), 60)

\* record_failed_login that locks one failure late (> instead of >=)
record_failed_login_late(u, t) ==
    LET n == u.failed_login_attempts + 1
    IN  [u EXCEPT !.failed_login_attempts = n,
                  !.lockout_until = IF n > LockThreshold THEN t + Min(5 * (2 ^ (n - 5)), 60)
                                    ELSE u.lockout_until]

\* User.record_failed_login on the instance u, at time t: the saved fields
record_failed_login(u, t) ==
    LET n == u.failed_login_attempts + 1
    IN  [u EXCEPT !.failed_login_attempts = n,
                  !.lockout_until = IF n >= LockThreshold THEN t + LockoutMinutes(n)
                                    ELSE u.lockout_until]

\* record_successful_login that forgets to clear lockout_until
record_successful_login_keeps_lock(u, t, ip) ==
    [u EXCEPT !.failed_login_attempts = 0,
              !.last_login = t,
              !.last_login_ip = IF ip # "" THEN ip ELSE u.last_login_ip]

\* record_successful_login that forgets to reset the counter
record_successful_login_keeps_counter(u, t, ip) ==
    [u EXCEPT !.lockout_until = NoTime,
              !.last_login = t,
              !.last_login_ip = IF ip # "" THEN ip ELSE u.last_login_ip]

\* User.record_successful_login on the row u, at time t
record_successful_login(u, t, ip) ==
    [u EXCEPT !.failed_login_attempts = 0,
              !.lockout_until = NoTime,
              !.last_login = t,
              !.last_login_ip = IF ip # "" THEN ip ELSE u.last_login_ip]

\* a save that increments the stored counter in the database (an F() expression)
SaveLockFields_in_database(row, u) ==
    [row EXCEPT !.failed_login_attempts = row.failed_login_attempts + 1,
                !.lockout_until = u.lockout_until]

\* save(update_fields=["failed_login_attempts", "lockout_until"])
SaveLockFields(row, u) ==
    [row EXCEPT !.failed_login_attempts = u.failed_login_attempts,
                !.lockout_until = u.lockout_until]

(***************************************************************************)
(* The authentication backends.                                            *)
(***************************************************************************)
\* EmailAuthBackend.authenticate
EmailAuthBackend(tbl, t, email, password) ==
    LET k == GetUser(tbl, Lower(email))
    IN  IF k = NoUser THEN NoUser
        ELSE IF is_locked(tbl[k], t) THEN NoUser
        ELSE IF ~tbl[k].is_active THEN NoUser
        ELSE IF check_password(password, tbl[k].password) THEN k
        ELSE NoUser

\* django.contrib.auth.backends.ModelBackend.authenticate, the second backend
ModelBackend(tbl, email, password) ==
    LET k == GetUser(tbl, email)
    IN  IF k = NoUser THEN NoUser
        ELSE IF check_password(password, tbl[k].password) /\ tbl[k].is_active THEN k
        ELSE NoUser

\* authenticate with EmailAuthBackend as the only backend
authenticate_one_backend(tbl, t, email, password) ==
    EmailAuthBackend(tbl, t, email, password)

\* authenticate that refuses a temporary password whose request says it expired
authenticate_until_expiry(tbl, t, email, password) ==
    LET found == IF EmailAuthBackend(tbl, t, email, password) # NoUser
                 THEN EmailAuthBackend(tbl, t, email, password)
                 ELSE ModelBackend(tbl, email, password)
    IN  IF /\ found # NoUser
           /\ \E pk \in DOMAIN requests :
                 /\ requests[pk].temp_password_hash = tbl[found].password
                 /\ requests[pk].temp_password_expires <= t
        THEN NoUser
        ELSE found

\* django.contrib.auth.authenticate over AUTHENTICATION_BACKENDS, in order
authenticate(tbl, t, email, password) ==
    LET first == EmailAuthBackend(tbl, t, email, password)
    IN  IF first # NoUser THEN first ELSE ModelBackend(tbl, email, password)

(***************************************************************************)
(* LoginHistory rows.                                                      *)
(***************************************************************************)
NoRow == [user |-> NoUser, email_attempted |-> "", success |-> FALSE, failure_reason |-> "unset"]

HistoryRow(user, email, success, reason) ==
    [user |-> user, email_attempted |-> email, success |-> success, failure_reason |-> reason]

\* LoginHistory.objects.get_or_create in place of create
AddRow_get_or_create(bag, row) == IF BagIn(row, bag) THEN bag ELSE bag (+) SetToBag({row})

\* LoginHistory.objects.create(...)
AddRow(bag, row) == bag (+) SetToBag({row})

(***************************************************************************)
(* Initial state: one registered account that earlier wrong passwords may  *)
(* have brought up to one failure short of a lock, an audit table that has *)
(* been emptied, and no request in flight.                                 *)
(***************************************************************************)
NoReq == [email |-> "", password |-> ""]

\* the fields of a User instance that record_failed_login reads and saves
LockFields(u) ==
    [failed_login_attempts |-> u.failed_login_attempts, lockout_until |-> u.lockout_until]

NoObj == [failed_login_attempts |-> 0, lockout_until |-> NoTime]

\* what is remembered of the account row as a request found it
Seen(u) ==
    [is_active |-> u.is_active, failed_login_attempts |-> u.failed_login_attempts,
     lockout_until |-> u.lockout_until]

NoSeen == [is_active |-> TRUE, failed_login_attempts |-> 0, lockout_until |-> NoTime]

Init ==
    /\ now = 0
    /\ \E n \in 0..(LockThreshold - 1) :
          users = [e \in {AccountEmail} |-> [NewUser("pw1") EXCEPT !.failed_login_attempts = n]]
    /\ history = EmptyBag
    /\ pc = [p \in Procs |-> "idle"]
    /\ req = [p \in Procs |-> NoReq]
    /\ user_cache = [p \in Procs |-> NoUser]
    /\ user_obj = [p \in Procs |-> NoObj]
    /\ res = [p \in Procs |-> "none"]
    /\ logged = [p \in Procs |-> NoRow]
    /\ pre = [p \in Procs |-> NoSeen]
    /\ t0 = [p \in Procs |-> 0]
    /\ session = [p \in Procs |-> FALSE]
    /\ attempts = 0
    /\ time = 0
    /\ ticks = 0
    /\ cache = [k \in CacheKeys |-> Nothing]
    /\ calls = [k \in CacheKeys |-> <<>>]
    /\ http = NoHttp
    /\ posts = 0
    /\ requests = <<>>
    /\ retired = {}
    /\ form = [p \in Procs |-> NoForm]
    /\ admin = [s \in Staffs |-> NoAdmin]
    /\ submits = 0
    /\ runs = 0
    /\ submissions = <<>>
    /\ reply = NoReply
    /\ contacts = 0
    /\ waited = 0
    /\ job = NewJob
    /\ edit = [p \in Procs |-> NoEdit]
    /\ review = [s \in Staffs |-> NoReview]
    /\ edits = 0
    /\ reviews = 0
    /\ clock = 0
    /\ lock_until = NoTime
    /\ remaining = NoRemaining
    /\ advances = 0
    /\ inflight = [p \in Procs |-> NoCall]

(***************************************************************************)
(* LoginView.post, statement by statement.                                 *)
(***************************************************************************)
\* the email SecureLoginForm.clean works with: the stripped field, lowercased
FormEmail(p) == Lower(Strip(req[p].email))

\* views.py:110-116: the request arrives; with observe the account row and
\* the time of arrival are remembered for the properties of single requests
Post(p, email, password, observe) ==
    /\ pc[p] = "idle"
    /\ attempts < MaxAttempts
    /\ req' = [req EXCEPT ![p] = [email |-> email, password |-> password]]
    /\ user_cache' = [user_cache EXCEPT ![p] = NoUser]
    /\ user_obj' = [user_obj EXCEPT ![p] = NoObj]
    /\ logged' = [logged EXCEPT ![p] = NoRow]
    /\ pre' = [pre EXCEPT ![p] = IF observe THEN Seen(users[AccountEmail]) ELSE NoSeen]
    /\ t0' = [t0 EXCEPT ![p] = IF observe THEN now ELSE 0]
    /\ IF session[p]
       THEN /\ res' = [res EXCEPT ![p] = "redirect"]
            /\ pc' = [pc EXCEPT ![p] = "done"]
            /\ attempts' = attempts
       ELSE /\ res' = [res EXCEPT ![p] = "none"]
            /\ pc' = [pc EXCEPT ![p] = "clean"]
            /\ attempts' = attempts + 1
    /\ UNCHANGED <<now, users, history, session>>
    /\ UNCHANGED nonlogin

\* SecureLoginForm.clean that leaves the lock check to the backend
clean_checks_no_lock(tbl, t, email, password) ==
    LET k == GetUser(tbl, email)
    IN  IF email = "" \/ password = "" \/ k = NoUser THEN "pass"
        ELSE IF ~tbl[k].is_active THEN "account_inactive"
        ELSE "pass"

\* forms.py:213-229: the lock and active checks of SecureLoginForm.clean
clean_checks(tbl, t, email, password) ==
    LET k == GetUser(tbl, email)
    IN  IF email = "" \/ password = "" \/ k = NoUser THEN "pass"
        ELSE IF is_locked(tbl[k], t) THEN "account_locked"
        ELSE IF ~tbl[k].is_active THEN "account_inactive"
        ELSE "pass"

\* forms.py:207-229: SecureLoginForm.clean up to the call of authenticate
Clean(p) ==
    /\ pc[p] = "clean"
    /\ LET verdict == clean_checks(users, now, FormEmail(p), req[p].password)
       IN  IF verdict = "pass"
           THEN /\ res' = res
                /\ pc' = [pc EXCEPT ![p] = "authenticate"]
           ELSE /\ res' = [res EXCEPT ![p] = verdict]
                /\ pc' = [pc EXCEPT ![p] = "log_failure"]
    /\ UNCHANGED <<now, users, history, req, user_cache, user_obj, logged, pre, t0, session, attempts>>
    /\ UNCHANGED nonlogin

\* forms.py:231-238: authenticate(request, email=email, password=password)
Authenticate(p) ==
    /\ pc[p] = "authenticate"
    /\ LET u == authenticate(users, now, FormEmail(p), req[p].password)
       IN  /\ user_cache' = [user_cache EXCEPT ![p] = u]
           /\ pc' = [pc EXCEPT ![p] = IF u = NoUser THEN "get_failed" ELSE "log_success"]
    /\ UNCHANGED <<now, users, history, req, user_obj, res, logged, pre, t0, session, attempts>>
    /\ UNCHANGED nonlogin

\* a form that tells the caller when the email is not that of an account
login_error_names_unknown(found) ==
    IF found THEN "invalid_credentials" ELSE "unknown_email"

\* forms.py:246-248: the error raised when authenticate returned None,
\* after the account was found (and charged) or was not found
login_error(found) == "invalid_credentials"

\* forms.py:240-248: User.objects.get(email=email) of the failure branch
GetFailed(p) ==
    /\ pc[p] = "get_failed"
    /\ LET k == GetUser(users, FormEmail(p))
       IN  IF k = NoUser
           THEN /\ res' = [res EXCEPT ![p] = login_error(FALSE)]
                /\ pc' = [pc EXCEPT ![p] = "log_failure"]
                /\ user_obj' = user_obj
           ELSE /\ user_obj' = [user_obj EXCEPT ![p] = LockFields(users[k])]
                /\ pc' = [pc EXCEPT ![p] = "record_failed"]
                /\ res' = res
    /\ UNCHANGED <<now, users, history, req, user_cache, logged, pre, t0, session, attempts>>
    /\ UNCHANGED nonlogin

\* forms.py:242-248 with models.py:165-179: user.record_failed_login()
RecordFailed(p) ==
    /\ pc[p] = "record_failed"
    /\ LET k == FormEmail(p)
           u == record_failed_login(user_obj[p], now)
       IN  /\ users' = [users EXCEPT ![k] = SaveLockFields(users[k], u)]
           /\ user_obj' = [user_obj EXCEPT ![p] = u]
    /\ res' = [res EXCEPT ![p] = login_error(TRUE)]
    /\ pc' = [pc EXCEPT ![p] = "log_failure"]
    /\ UNCHANGED <<now, history, req, user_cache, logged, pre, t0, session, attempts>>
    /\ UNCHANGED nonlogin

\* views.py:150-162: the failure reason the view works out for the audit row
FailureReason(tbl, t, email) ==
    LET k == GetUser(tbl, Lower(email))
    IN  IF k = NoUser THEN "invalid_credentials"
        ELSE IF is_locked(tbl[k], t) THEN "account_locked"
        ELSE IF ~tbl[k].is_active THEN "account_inactive"
        ELSE "invalid_credentials"

\* views.py:164-173: the audit row of a failed attempt
FailureRow(tbl, t, email) ==
    HistoryRow(NoUser, email, FALSE, FailureReason(tbl, t, email))

\* views.py:150-173: the failure branch of LoginView.post
LogFailure(p) ==
    /\ pc[p] = "log_failure"
    /\ LET row == FailureRow(users, now, req[p].email)
       IN  /\ history' = AddRow(history, row)
           /\ logged' = [logged EXCEPT ![p] = row]
    /\ pc' = [pc EXCEPT ![p] = "done"]
    /\ UNCHANGED <<now, users, req, user_cache, user_obj, res, pre, t0, session, attempts>>
    /\ UNCHANGED nonlogin

\* views.py:118-128: the audit row of a successful attempt
SuccessRow(user) == HistoryRow(user, user, TRUE, "")

LogSuccess(p) ==
    /\ pc[p] = "log_success"
    /\ LET row == SuccessRow(user_cache[p])
       IN  /\ history' = AddRow(history, row)
           /\ logged' = [logged EXCEPT ![p] = row]
    /\ pc' = [pc EXCEPT ![p] = "record_success"]
    /\ UNCHANGED <<now, users, req, user_cache, user_obj, res, pre, t0, session, attempts>>
    /\ UNCHANGED nonlogin

\* views.py:129-148 with models.py:181-190: record_successful_login and login()
RecordSuccess(p) ==
    /\ pc[p] = "record_success"
    /\ LET k == user_cache[p]
       IN  users' = [users EXCEPT ![k] = record_successful_login(users[k], now, ClientIP(p))]
    /\ session' = [session EXCEPT ![p] = TRUE]
    /\ res' = [res EXCEPT ![p] = "success"]
    /\ pc' = [pc EXCEPT ![p] = "done"]
    /\ UNCHANGED <<now, history, req, user_cache, user_obj, logged, pre, t0, attempts>>
    /\ UNCHANGED nonlogin

\* the response has been delivered
Return(p) ==
    /\ pc[p] = "done"
    /\ pc' = [pc EXCEPT ![p] = "idle"]
    /\ req' = [req EXCEPT ![p] = NoReq]
    /\ user_cache' = [user_cache EXCEPT ![p] = NoUser]
    /\ user_obj' = [user_obj EXCEPT ![p] = NoObj]
    /\ res' = [res EXCEPT ![p] = "none"]
    /\ logged' = [logged EXCEPT ![p] = NoRow]
    /\ pre' = [pre EXCEPT ![p] = NoSeen]
    /\ t0' = [t0 EXCEPT ![p] = 0]
    /\ UNCHANGED <<now, users, history, session, attempts>>
    /\ UNCHANGED nonlogin

\* views.py:181-197: logout_view
Logout(p) ==
    /\ pc[p] = "idle"
    /\ session[p]
    /\ session' = [session EXCEPT ![p] = FALSE]
    /\ UNCHANGED <<now, users, history, pc, req, user_cache, user_obj, res, logged, pre, t0,
                   attempts>>
    /\ UNCHANGED nonlogin

(***************************************************************************)
(* Staff actions and the clock.                                            *)
(***************************************************************************)
\* admin.py:82-92: UserAdmin.unlock_accounts
unlock_accounts ==
    /\ users[AccountEmail].failed_login_attempts > 0
    /\ users' = [users EXCEPT ![AccountEmail].failed_login_attempts = 0,
                              ![AccountEmail].lockout_until = NoTime]
    /\ UNCHANGED <<now, history>>
    /\ UNCHANGED procvars
    /\ UNCHANGED nonlogin

\* admin.py:103-110: UserAdmin.deactivate_accounts
deactivate_accounts ==
    /\ users[AccountEmail].is_active
    /\ users' = [users EXCEPT ![AccountEmail].is_active = FALSE]
    /\ UNCHANGED <<now, history>>
    /\ UNCHANGED procvars
    /\ UNCHANGED nonlogin

\* admin.py:61-67: the is_active checkbox of the user change form
activate_account ==
    /\ ~users[AccountEmail].is_active
    /\ users' = [users EXCEPT ![AccountEmail].is_active = TRUE]
    /\ UNCHANGED <<now, history>>
    /\ UNCHANGED procvars
    /\ UNCHANGED nonlogin

\* the clock advances
Tick ==
    /\ now + TickMinutes <= MaxTime
    /\ now' = now + TickMinutes
    /\ UNCHANGED <<users, history>>
    /\ UNCHANGED procvars
    /\ UNCHANGED nonlogin

(***************************************************************************)
(* Specifications.                                                         *)
(***************************************************************************)
Arrive(p, observe) == \E e \in RawEmails, w \in Passwords : Post(p, e, w, observe)

Work(p) ==
    \/ Clean(p)
    \/ Authenticate(p)
    \/ GetFailed(p)
    \/ RecordFailed(p)
    \/ LogFailure(p)
    \/ LogSuccess(p)
    \/ RecordSuccess(p)
    \/ Return(p)
    \/ Logout(p)

Staff ==
    \/ unlock_accounts
    \/ deactivate_accounts
    \/ activate_account

Next ==
    \/ \E p \in Procs : attempts < MaxOverlapping /\ Arrive(p, FALSE)
    \/ \E p \in Procs : Work(p)
    \/ Staff
    \/ Tick

\* requests of different clients interleave at every statement
Spec == Init /\ [][Next]_vars

NextLogins ==
    \/ \E p \in Procs : attempts < MaxOverlapping /\ Arrive(p, FALSE)
    \/ \E p \in Procs : Work(p)
    \/ Tick

\* login attempts interleaved with each other, and with nothing else
SpecLogins == Init /\ [][NextLogins]_vars

AllIdle == \A p \in Procs : pc[p] = "idle"
OthersIdle(p) == \A q \in Procs \ {p} : pc[q] = "idle"

NextSeq ==
    \/ \E p \in Procs : OthersIdle(p) /\ (Arrive(p, TRUE) \/ Work(p))
    \/ AllIdle /\ Staff
    \/ AllIdle /\ Tick

\* one request at a time: each handler runs from arrival to response undisturbed
SpecSeq == Init /\ [][NextSeq]_vars

\* models.py:165-179 called on the account row directly, as often as wanted
CallRecordFailed ==
    /\ users[AccountEmail].failed_login_attempts < MaxFailed
    /\ users' = [users EXCEPT ![AccountEmail] =
                    SaveLockFields(users[AccountEmail],
                                   record_failed_login(LockFields(users[AccountEmail]), now))]
    /\ UNCHANGED <<now, history>>
    /\ UNCHANGED procvars
    /\ UNCHANGED nonlogin

NextLockout ==
    \/ CallRecordFailed
    \/ Staff
    \/ Tick

\* the lockout arithmetic alone: record_failed_login without the form in front of it
SpecLockout == Init /\ [][NextLockout]_vars

(***************************************************************************)
(* RateLimitMiddleware: the fixed-window counter kept in the cache.        *)
(***************************************************************************)
logindb == <<now, users, history>>

\* middleware.py:85: cache.get(cache_key) at time t: None once the entry expired
cache_get(c, k, t) == IF c[k] = Nothing \/ c[k].expires <= t THEN Nothing ELSE c[k]

\* cache.set(cache_key, data, timeout) at time t
cache_set(c, k, data, timeout, t) ==
    [c EXCEPT ![k] = [count |-> data.count, start |-> data.start, expires |-> t + timeout]]

\* _is_rate_limited that denies the request that reaches the limit
is_rate_limited_at_limit(c, t, ip, endpoint, config) ==
    LET k == CacheKey(endpoint, ip)
        data == cache_get(c, k, t)
        fresh == [count |-> 1, start |-> t]
    IN  IF data = Nothing \/ t - data.start > config.window
        THEN [cache |-> cache_set(c, k, fresh, config.window, t), limited |-> FALSE]
        ELSE LET counted == [count |-> data.count + 1, start |-> data.start]
             IN  [cache |-> cache_set(c, k, counted, config.window, t),
                  limited |-> counted.count >= config.limit]

\* _is_rate_limited that restarts a window without counting the request
is_rate_limited_restart_at_zero(c, t, ip, endpoint, config) ==
    LET k == CacheKey(endpoint, ip)
        data == cache_get(c, k, t)
        fresh == [count |-> IF data = Nothing THEN 1 ELSE 0, start |-> t]
    IN  IF data = Nothing \/ t - data.start > config.window
        THEN [cache |-> cache_set(c, k, fresh, config.window, t), limited |-> FALSE]
        ELSE LET counted == [count |-> data.count + 1, start |-> data.start]
             IN  [cache |-> cache_set(c, k, counted, config.window, t),
                  limited |-> counted.count > config.limit]

\* middleware.py:82-104: RateLimitMiddleware._is_rate_limited at time t: the
\* cache it leaves and the verdict it returns
is_rate_limited(c, t, ip, endpoint, config) ==
    LET k == CacheKey(endpoint, ip)
        data == cache_get(c, k, t)
        fresh == [count |-> 1, start |-> t]
    IN  IF data = Nothing
        THEN [cache |-> cache_set(c, k, fresh, config.window, t), limited |-> FALSE]
        ELSE IF t - data.start > config.window
        THEN [cache |-> cache_set(c, k, fresh, config.window, t), limited |-> FALSE]
        ELSE LET counted == [count |-> data.count + 1, start |-> data.start]
             IN  [cache |-> cache_set(c, k, counted, config.window, t),
                  limited |-> counted.count > config.limit]

\* the endpoint and address of the requests the limiter is called for
Callers == {<<"accounts:login", "10.0.0.1">>, <<"accounts:register", "10.0.0.2">>}

RECURSIVE TotalCalls(_, _)
TotalCalls(log, keys) ==
    IF keys = {} THEN 0
    ELSE LET k == CHOOSE x \in keys : TRUE
         IN  Len(log[k]) + TotalCalls(log, keys \ {k})

\* _is_rate_limited called for one key, as often as wanted
CallIsRateLimited(endpoint, ip) ==
    /\ TotalCalls(calls, CacheKeys) < MaxCalls
    /\ LET r == is_rate_limited(cache, time, ip, endpoint, RATE_LIMITS[endpoint])
           k == CacheKey(endpoint, ip)
       IN  /\ cache' = r.cache
           /\ calls' = [calls EXCEPT ![k] = Append(@, [at |-> time, limited |-> r.limited])]
    /\ UNCHANGED <<time, ticks, http, posts>>
    /\ UNCHANGED <<logindb, procvars, resetvars, sitevars>>

\* time passes between two requests
RateTick(d) ==
    /\ ticks < MaxTicks
    /\ time' = time + d
    /\ ticks' = ticks + 1
    /\ UNCHANGED <<cache, calls, http, posts>>
    /\ UNCHANGED <<logindb, procvars, resetvars, sitevars>>

NextRate ==
    \/ \E c \in Callers : CallIsRateLimited(c[1], c[2])
    \/ \E d \in RateSteps : RateTick(d)

InitRate == Init /\ users[AccountEmail].failed_login_attempts = 0

\* the counter alone: _is_rate_limited without the middleware in front of it
SpecRate == InitRate /\ [][NextRate]_vars

\* request.resolver_match while RateLimitMiddleware.__call__ runs: the URL is
\* resolved inside get_response, after every middleware of MIDDLEWARE has
\* been entered, so the attribute still has the None of HttpRequest.__init__
resolver_match_in_call(url_name) == NoMatch

\* middleware.py:76-80: RateLimitMiddleware._get_url_name
get_url_name(resolver_match) ==
    IF resolver_match # NoMatch THEN resolver_match ELSE NoMatch

\* middleware.py:50-74: RateLimitMiddleware.__call__ for a request addressed
\* to url_name: the response of the limiter, or the view is reached
Middleware(method, url_name, ip, ajax) ==
    /\ posts < MaxPosts
    /\ posts' = posts + 1
    /\ LET seen == IF method = "POST" THEN get_url_name(resolver_match_in_call(url_name))
                   ELSE NoMatch
           request == [NoHttp EXCEPT !.method = method, !.url_name = url_name, !.ip = ip,
                                     !.ajax = ajax]
       IN  IF method = "POST" /\ seen \in DOMAIN RATE_LIMITS
           THEN LET r == is_rate_limited(cache, time, ip, seen, RATE_LIMITS[seen])
                IN  /\ cache' = r.cache
                    /\ http' = [request EXCEPT !.status = IF ~r.limited THEN ViewStatus
                                                          ELSE IF ajax THEN 429 ELSE 403,
                                               !.reached_view = ~r.limited]
           ELSE /\ cache' = cache
                /\ http' = [request EXCEPT !.status = ViewStatus, !.reached_view = TRUE]
    /\ UNCHANGED <<time, ticks, calls>>
    /\ UNCHANGED <<logindb, procvars, resetvars, sitevars>>

NextMiddleware ==
    \/ \E method \in {"GET", "POST"}, u \in UrlNames, ip \in IPs, ajax \in BOOLEAN :
          Middleware(method, u, ip, ajax)
    \/ \E d \in RateSteps : RateTick(d)

\* requests passing through the middleware stack down to their views
SpecMiddleware == InitRate /\ [][NextMiddleware]_vars

\* middleware.py:50-74: RateLimitMiddleware.__call__ for a request that
\* carries resolver_match when it is called
MiddlewareCall(method, resolver_match, ip, ajax) ==
    /\ posts < MaxResolved
    /\ posts' = posts + 1
    /\ LET seen == IF method = "POST" THEN get_url_name(resolver_match) ELSE NoMatch
           request == [NoHttp EXCEPT !.method = method, !.url_name = resolver_match,
                                     !.ip = ip, !.ajax = ajax]
       IN  IF method = "POST" /\ seen \in DOMAIN RATE_LIMITS
           THEN LET r == is_rate_limited(cache, time, ip, seen, RATE_LIMITS[seen])
                IN  /\ cache' = r.cache
                    /\ http' = [request EXCEPT !.status = IF ~r.limited THEN ViewStatus
                                                          ELSE IF ajax THEN 429 ELSE 403,
                                               !.reached_view = ~r.limited]
           ELSE /\ cache' = cache
                /\ http' = [request EXCEPT !.status = ViewStatus, !.reached_view = TRUE]
    /\ UNCHANGED <<time, ticks, calls>>
    /\ UNCHANGED <<logindb, procvars, resetvars, sitevars>>

NextMiddlewareCall ==
    \/ \E method \in {"GET", "POST"}, m \in ResolvedNames, ip \in IPs, ajax \in BOOLEAN :
          MiddlewareCall(method, m, ip, ajax)
    \/ \E d \in RateSteps : RateTick(d)

\* RateLimitMiddleware.__call__ called on requests whose URL is resolved
SpecMiddlewareCall == InitRate /\ [][NextMiddlewareCall]_vars

(***************************************************************************)
(* The password reset workflow: PasswordResetRequestView.post, the model   *)
(* methods approve and reject, and the two admin actions that call them.   *)
(***************************************************************************)
outside_reset == <<history, procvars, ratevars, sitevars>>

\* PasswordResetRequest(user=...) as form.save creates it (models.py:219-271)
NewRequest(user) ==
    [user |-> user, status |-> "pending", processed_by |-> NoUser, processed_at |-> NoTime,
     admin_notes |-> "", temp_password_hash |-> <<>>, temp_password_expires |-> NoTime]

\* PasswordResetRequest.objects.filter(user=user, status="pending").exists()
HasPending(reqs, user) ==
    \E pk \in DOMAIN reqs : reqs[pk].user = user /\ reqs[pk].status = "pending"

\* forms.py:294-304: clean_email: the account of the stripped, lowercased email
form_user(tbl, email) == GetUser(tbl, Lower(Strip(email)))

\* clean that does not look for a pending request
form_errors_no_pending_check(tbl, reqs, email, reason) ==
    IF Len(reason) < 10 \/ Len(reason) > 500 THEN "field_error" ELSE "none"

\* forms.py:275-277 and 306-323: what is_valid finds wrong with the form
form_errors(tbl, reqs, email, reason) ==
    IF Len(reason) < 10 \/ Len(reason) > 500 THEN "field_error"
    ELSE IF form_user(tbl, email) # NoUser /\ HasPending(reqs, form_user(tbl, email))
    THEN "duplicate_pending"
    ELSE "none"

\* views.py:328-348: what the view shows: the errors of the form, or the
\* success message
reset_response(tbl, reqs, email, reason) ==
    IF form_errors(tbl, reqs, email, reason) = "none" THEN "success_message"
    ELSE form_errors(tbl, reqs, email, reason)

\* views.py:322-326: the submission arrives
ResetPost(p, email, reason) ==
    /\ form[p].pc = "idle"
    /\ submits < MaxSubmits
    /\ submits' = submits + 1
    /\ form' = [form EXCEPT ![p] =
                  IF session[p]
                  THEN [NoForm EXCEPT !.pc = "done", !.email = email, !.reason = reason,
                                      !.res = "redirect_dashboard"]
                  ELSE [NoForm EXCEPT !.pc = "clean", !.email = email, !.reason = reason]]
    /\ UNCHANGED <<now, users, requests, retired, admin, runs>>
    /\ UNCHANGED outside_reset

\* views.py:328 with forms.py:294-323: form.is_valid(); of the form the view
\* uses form.user from here on
ResetClean(p) ==
    /\ form[p].pc = "clean"
    /\ LET shown == reset_response(users, requests, form[p].email, form[p].reason)
       IN  form' = [form EXCEPT ![p] =
                      [NoForm EXCEPT !.user = form_user(users, form[p].email),
                                     !.res = shown,
                                     !.pc = IF shown = "success_message" THEN "save"
                                            ELSE "done"]]
    /\ UNCHANGED <<now, users, requests, retired, admin, submits, runs>>
    /\ UNCHANGED outside_reset

\* views.py:329-346 with forms.py:325-340: form.save and the success message
ResetSave(p) ==
    /\ form[p].pc = "save"
    /\ requests' = IF form[p].user = NoUser THEN requests
                   ELSE Append(requests, NewRequest(form[p].user))
    /\ form' = [form EXCEPT ![p].pc = "done"]
    /\ UNCHANGED <<now, users, retired, admin, submits, runs>>
    /\ UNCHANGED outside_reset

\* the response has been delivered
ResetReturn(p) ==
    /\ form[p].pc = "done"
    /\ form' = [form EXCEPT ![p] = NoForm]
    /\ UNCHANGED <<now, users, requests, retired, admin, submits, runs>>
    /\ UNCHANGED outside_reset

\* approve that leaves the password of the account alone
approve_user_keeps_password(u, temp_password, t) ==
    IF temp_password # "" THEN [u EXCEPT !.last_password_change = t] ELSE u

\* approve that also unlocks the account
approve_user_unlocks(u, temp_password, t) ==
    IF temp_password # ""
    THEN [u EXCEPT !.password = make_password(temp_password), !.last_password_change = t,
                   !.failed_login_attempts = 0, !.lockout_until = NoTime]
    ELSE [u EXCEPT !.failed_login_attempts = 0, !.lockout_until = NoTime]

\* models.py:303-310: what approve saves of the account
approve_user(u, temp_password, t) ==
    IF temp_password # ""
    THEN [u EXCEPT !.password = make_password(temp_password), !.last_password_change = t]
    ELSE u

\* models.py:289-316: what approve makes of the instance it is called on
approve(inst, admin_user, temp_password, t) ==
    LET decided == [inst EXCEPT !.status = "approved", !.processed_by = admin_user,
                                !.processed_at = t]
    IN  IF temp_password # ""
        THEN [decided EXCEPT !.temp_password_hash = make_password(temp_password),
                             !.temp_password_expires = t + TempValidMinutes]
        ELSE decided

\* reject that also forgets the temporary password of the request
reject_clears_temp(inst, admin_user, reason, t) ==
    [inst EXCEPT !.status = "rejected", !.processed_by = admin_user, !.processed_at = t,
                 !.admin_notes = IF reason # "" THEN reason ELSE inst.admin_notes,
                 !.temp_password_hash = <<>>, !.temp_password_expires = t]

\* models.py:318-325: what reject makes of the instance it is called on
reject(inst, admin_user, reason, t) ==
    [inst EXCEPT !.status = "rejected", !.processed_by = admin_user, !.processed_at = t,
                 !.admin_notes = IF reason # "" THEN reason ELSE inst.admin_notes]

\* the primary keys of a set, newest first (Meta.ordering = ["-created_at"])
RECURSIVE NewestFirst(_)
NewestFirst(pks) ==
    IF pks = {} THEN <<>>
    ELSE LET top == CHOOSE x \in pks : \A y \in pks : y <= x
         IN  <<top>> \o NewestFirst(pks \ {top})

\* queryset.filter(status="pending") over the selected rows, as the for loop
\* of an admin action evaluates it: the instances it will go through
Fetch(reqs, selected) ==
    LET pks == NewestFirst({pk \in selected : reqs[pk].status = "pending"})
    IN  [i \in 1..Len(pks) |-> [pk |-> pks[i], inst |-> reqs[pks[i]]]]

\* admin.py:187 and 219: a staff member runs one of the two actions on the
\* rows selected in the change list
StartAction(s, action, selected) ==
    /\ admin[s].pc = "idle"
    /\ runs < MaxStaffRuns
    /\ runs' = runs + 1
    /\ admin' = [admin EXCEPT ![s] = [pc |-> "loop", action |-> action,
                                      todo |-> Fetch(requests, selected), shown |-> ""]]
    /\ UNCHANGED <<now, users, requests, retired, form, submits>>
    /\ UNCHANGED outside_reset

\* admin.py:187-205: one turn of the loop of approve_and_generate_password
ApproveNext(s) ==
    /\ admin[s].pc = "loop" /\ admin[s].action = "approve" /\ admin[s].todo # <<>>
    /\ LET pk == Head(admin[s].todo).pk
           inst == Head(admin[s].todo).inst
           temp_password == TempPassword(Cardinality(retired) + 1)
       IN  /\ users' = [users EXCEPT ![inst.user] = approve_user(@, temp_password, now)]
           /\ retired' = retired \cup {users[inst.user].password}
           /\ requests' = [requests EXCEPT ![pk] = approve(inst, s, temp_password, now)]
           /\ admin' = [admin EXCEPT ![s].todo = Tail(@), ![s].shown = temp_password]
    /\ UNCHANGED <<now, form, submits, runs>>
    /\ UNCHANGED outside_reset

\* admin.py:219-224: one turn of the loop of reject_requests
RejectNext(s) ==
    /\ admin[s].pc = "loop" /\ admin[s].action = "reject" /\ admin[s].todo # <<>>
    /\ LET pk == Head(admin[s].todo).pk
           inst == Head(admin[s].todo).inst
       IN  requests' = [requests EXCEPT ![pk] = reject(inst, s, RejectReason, now)]
    /\ admin' = [admin EXCEPT ![s].todo = Tail(@)]
    /\ UNCHANGED <<now, users, retired, form, submits, runs>>
    /\ UNCHANGED outside_reset

\* admin.py:207-213 and 226-230: the loop is over, the action reports
FinishAction(s) ==
    /\ admin[s].pc = "loop" /\ admin[s].todo = <<>>
    /\ admin' = [admin EXCEPT ![s] = NoAdmin]
    /\ UNCHANGED <<now, users, requests, retired, form, submits, runs>>
    /\ UNCHANGED outside_reset

Arrival(p) == \E e \in RawEmails, r \in Reasons : ResetPost(p, e, r)

Handle(p) ==
    \/ ResetClean(p)
    \/ ResetSave(p)
    \/ ResetReturn(p)

Moderate(s) ==
    \/ \E a \in {"approve", "reject"}, sel \in SUBSET (DOMAIN requests) :
          sel # {} /\ StartAction(s, a, sel)
    \/ ApproveNext(s)
    \/ RejectNext(s)
    \/ FinishAction(s)

NextReset ==
    \/ \E p \in Procs : submits < MaxOverlapSubmits /\ Arrival(p)
    \/ \E p \in Procs : Handle(p)
    \/ \E s \in Staffs : Moderate(s)
    \/ Tick

InitReset == Init /\ users[AccountEmail].failed_login_attempts = 0

\* submissions and admin actions interleave at every database statement
SpecReset == InitReset /\ [][NextReset]_vars

NobodyElse(x) ==
    /\ \A p \in Procs \ {x} : form[p].pc = "idle"
    /\ \A s \in Staffs \ {x} : admin[s].pc = "idle"

NextResetSeq ==
    \/ \E p \in Procs : NobodyElse(p) /\ (Arrival(p) \/ Handle(p))
    \/ \E s \in Staffs : NobodyElse(s) /\ Moderate(s)
    \/ NobodyElse("nobody") /\ Tick

\* one handler at a time: each submission and each admin action runs from
\* its start to its end undisturbed
SpecResetSeq == InitReset /\ [][NextResetSeq]_vars

\* the reset workflow on an account that failed logins lock and staff unlocks
NextResetLocked ==
    \/ \E p \in Procs : NobodyElse(p) /\ (Arrival(p) \/ Handle(p))
    \/ \E s \in Staffs : NobodyElse(s) /\ Moderate(s)
    \/ users[AccountEmail].failed_login_attempts < MaxLockFailures /\ CallRecordFailed
    \/ unlock_accounts
    \/ deactivate_accounts
    \/ Tick

SpecResetLocked == Init /\ [][NextResetLocked]_vars

\* the passwords tried at the login form once temporary ones are around
TempLoginPasswords == {"pw1", TempPassword(1)}

\* the validity of a temporary password runs out: a day and a minute pass
DayPasses ==
    /\ now < MaxDays * TempValidMinutes
    /\ now' = now + TempValidMinutes + 1
    /\ UNCHANGED <<users, history>>
    /\ UNCHANGED procvars
    /\ UNCHANGED nonlogin

\* the reset workflow and logins of the account holder, one handler at a time
NextTempLogin ==
    \/ \E r \in Reasons :
          /\ submits < MaxTempSubmits
          /\ NobodyElse("c2") /\ AllIdle /\ ResetPost("c2", AccountEmail, r)
    \/ NobodyElse("c2") /\ AllIdle /\ Handle("c2")
    \/ \E s \in Staffs : NobodyElse(s) /\ AllIdle /\ Moderate(s)
    \/ \E w \in TempLoginPasswords :
          /\ attempts < MaxTempLogins
          /\ NobodyElse("nobody") /\ Post("c1", AccountEmail, w, TRUE)
    \/ NobodyElse("nobody") /\ Work("c1")
    \/ NobodyElse("nobody") /\ AllIdle /\ DayPasses

SpecTempLogin == InitReset /\ [][NextTempLogin]_vars

(***************************************************************************)
(* _is_rate_limited step by step: cache.get and cache.set are two          *)
(* operations on the cache, and requests interleave between them.          *)
(***************************************************************************)
outside_rate == <<logindb, procvars, resetvars, contactvars, jobvars, remainvars>>

\* middleware.py:82-85: data = cache.get(cache_key)
CacheGet(p, endpoint, ip) ==
    /\ inflight[p].pc = "idle"
    /\ TotalCalls(calls, CacheKeys) + Cardinality({q \in Procs : inflight[q].pc = "got"})
          < MaxRacingCalls
    /\ inflight' = [inflight EXCEPT ![p] =
                       [pc |-> "got", endpoint |-> endpoint, ip |-> ip,
                        data |-> cache_get(cache, CacheKey(endpoint, ip), time)]]
    /\ UNCHANGED ratevars
    /\ UNCHANGED outside_rate

\* middleware.py:87-104: what is stored and returned for the data that was read
CacheSet(p) ==
    /\ inflight[p].pc = "got"
    /\ LET endpoint == inflight[p].endpoint
           k == CacheKey(endpoint, inflight[p].ip)
           config == RATE_LIMITS[endpoint]
           data == inflight[p].data
           fresh == [count |-> 1, start |-> time]
       IN  IF data = Nothing
           THEN /\ cache' = cache_set(cache, k, fresh, config.window, time)
                /\ calls' = [calls EXCEPT ![k] = Append(@, [at |-> time, limited |-> FALSE])]
           ELSE IF time - data.start > config.window
           THEN /\ cache' = cache_set(cache, k, fresh, config.window, time)
                /\ calls' = [calls EXCEPT ![k] = Append(@, [at |-> time, limited |-> FALSE])]
           ELSE LET counted == [count |-> data.count + 1, start |-> data.start]
                IN  /\ cache' = cache_set(cache, k, counted, config.window, time)
                    /\ calls' = [calls EXCEPT ![k] =
                                    Append(@, [at |-> time,
                                               limited |-> counted.count > config.limit])]
    /\ inflight' = [inflight EXCEPT ![p] = NoCall]
    /\ UNCHANGED <<time, ticks, http, posts>>
    /\ UNCHANGED outside_rate

NextRateRace ==
    \/ \E p \in Procs, c \in Callers : CacheGet(p, c[1], c[2])
    \/ \E p \in Procs : CacheSet(p)
    \/ \E d \in RateSteps : RateTick(d)

\* requests to the limiter, interleaved between cache.get and cache.set
SpecRateRace == InitRate /\ [][NextRateRace]_vars

(***************************************************************************)
(* The contact form: ContactForm.check_rate_limit and contact_submit.      *)
(***************************************************************************)
\* ContactSubmission.objects.filter(ip_address=ip_address,
\* created_at__gte=one_hour_ago).count()
recent_count(rows, ip_address, one_hour_ago) ==
    Cardinality({i \in DOMAIN rows : /\ rows[i].ip_address = ip_address
                                      /\ rows[i].created_at >= one_hour_ago})

\* check_rate_limit that lets the request through at the limit itself
check_rate_limit_above(rows, ip_address, t) ==
    IF ip_address = "" THEN TRUE
    ELSE ~(recent_count(rows, ip_address, t - HourMinutes) > RATE_LIMIT_PER_HOUR)

\* contact/forms.py:130-155: ContactForm.check_rate_limit at time t
check_rate_limit(rows, ip_address, t) ==
    IF ip_address = "" THEN TRUE
    ELSE ~(recent_count(rows, ip_address, t - HourMinutes) >= RATE_LIMIT_PER_HOUR)

\* contact/forms.py:107-119: clean_message finds no spam keyword
clean_message(message) == message # "you are a lottery winner"

\* contact/views.py:41-109: contact_submit, from the request to the answer
contact_submit(ip, ajax, message) ==
    /\ contacts < MaxContacts
    /\ contacts' = contacts + 1
    /\ IF ~ajax
       THEN /\ reply' = [ip |-> ip, ajax |-> ajax, at |-> now, status |-> 400]
            /\ submissions' = submissions
       ELSE IF ~check_rate_limit(submissions, ip, now)
       THEN /\ reply' = [ip |-> ip, ajax |-> ajax, at |-> now, status |-> 429]
            /\ submissions' = submissions
       ELSE IF clean_message(message)
       THEN /\ reply' = [ip |-> ip, ajax |-> ajax, at |-> now, status |-> 200]
            /\ submissions' = Append(submissions, [ip_address |-> ip, created_at |-> now])
       ELSE /\ reply' = [ip |-> ip, ajax |-> ajax, at |-> now, status |-> 400]
            /\ submissions' = submissions
    /\ UNCHANGED <<waited, logindb, procvars, ratevars, resetvars, jobvars, remainvars, inflight>>

\* time passes between two submissions
Wait(d) ==
    /\ waited < MaxWaits
    /\ waited' = waited + 1
    /\ now' = now + d
    /\ UNCHANGED <<submissions, reply, contacts>>
    /\ UNCHANGED <<users, history, procvars, ratevars, resetvars, jobvars, remainvars, inflight>>

NextContact ==
    \/ \E ip \in ContactIPs, ajax \in BOOLEAN, m \in Messages : contact_submit(ip, ajax, m)
    \/ \E d \in WaitSteps : Wait(d)

InitContact == Init /\ users[AccountEmail].failed_login_attempts = 0

\* submissions to the contact form, one at a time
SpecContact == InitContact /\ [][NextContact]_vars

(***************************************************************************)
(* The job board: EditJobView.post and the admin actions of JobPostAdmin.  *)
(***************************************************************************)
outside_jobs == <<logindb, procvars, ratevars, resetvars, contactvars, remainvars, inflight>>

\* jobs/forms.py:190-198: clean_title accepts the title
clean_title(title) == title # "<Backend>"

\* jobs/views.py:138-146 with 114-121: the request is bound to the row it loads,
\* or answered at once when the user is not the owner or the job was reviewed
EditLoad(p, user, title) ==
    /\ edit[p].pc = "idle"
    /\ edits < MaxEdits
    /\ edits' = edits + 1
    /\ IF job.posted_by # user
       THEN edit' = [edit EXCEPT ![p] = [NoEdit EXCEPT !.user = user, !.res = "404"]]
       ELSE IF job.status \notin {"draft", "pending"}
       THEN edit' = [edit EXCEPT ![p] = [NoEdit EXCEPT !.user = user, !.res = "reviewed"]]
       ELSE edit' = [edit EXCEPT ![p] = [pc |-> "bound", user |-> user, title |-> title,
                                         inst |-> job, res |-> "none"]]
    /\ UNCHANGED <<job, review, reviews>>
    /\ UNCHANGED outside_jobs

\* jobs/forms.py:231-245: JobPostForm.save() writes the whole row of the
\* instance the form was bound to, with the cleaned fields and status pending
JobPostForm_save(inst, title) == [inst EXCEPT !.title = title, !.status = "pending"]

\* jobs/views.py:148-159: form.is_valid() and form.save()
EditSave(p) ==
    /\ edit[p].pc = "bound"
    /\ IF clean_title(edit[p].title)
       THEN /\ job' = JobPostForm_save(edit[p].inst, edit[p].title)
            /\ edit' = [edit EXCEPT ![p] = [NoEdit EXCEPT !.user = edit[p].user,
                                                          !.res = "updated"]]
       ELSE /\ job' = job
            /\ edit' = [edit EXCEPT ![p] = [NoEdit EXCEPT !.user = edit[p].user,
                                                          !.res = "invalid"]]
    /\ UNCHANGED <<review, edits, reviews>>
    /\ UNCHANGED outside_jobs

\* jobs/admin.py:146 and 160: queryset.filter(status="pending") is evaluated
StartReview(s, action) ==
    /\ review[s].pc = "idle"
    /\ reviews < MaxReviews
    /\ reviews' = reviews + 1
    /\ IF job.status = "pending"
       THEN review' = [review EXCEPT ![s] = [pc |-> "fetched", action |-> action,
                                             inst |-> job, count |-> 0]]
       ELSE review' = [review EXCEPT ![s] = [NoReview EXCEPT !.action = action]]
    /\ UNCHANGED <<job, edit, edits>>
    /\ UNCHANGED outside_jobs

\* jobs/models.py:263-269: JobPost.approve saves status, reviewed_by, reviewed_at
JobPost_approve(row, admin_user, t) ==
    [row EXCEPT !.status = "approved", !.reviewed_by = admin_user, !.reviewed_at = t]

\* jobs/models.py:271-279: JobPost.reject saves these and the rejection reason
\* of the instance inst to the row
JobPost_reject(row, inst, admin_user, reason, t) ==
    [row EXCEPT !.status = "rejected", !.reviewed_by = admin_user, !.reviewed_at = t,
                !.rejection_reason = IF reason # "" THEN reason ELSE inst.rejection_reason]

\* jobs/admin.py:140-166: the body of the loop of approve_jobs and reject_jobs
ReviewJob(s) ==
    /\ review[s].pc = "fetched"
    /\ job' = IF review[s].action = "approve"
              THEN JobPost_approve(job, s, now)
              ELSE JobPost_reject(job, review[s].inst, s, "Rejected by administrator.", now)
    /\ review' = [review EXCEPT ![s] = [NoReview EXCEPT !.action = review[s].action,
                                                        !.count = 1]]
    /\ UNCHANGED <<edit, edits, reviews>>
    /\ UNCHANGED outside_jobs

\* jobs/admin.py:168-177: close_jobs, one UPDATE statement
close_jobs(s) ==
    /\ review[s].pc = "idle"
    /\ reviews < MaxReviews
    /\ reviews' = reviews + 1
    /\ job' = IF job.status # "closed" THEN [job EXCEPT !.status = "closed"] ELSE job
    /\ review' = [review EXCEPT ![s] = [NoReview EXCEPT !.action = "close",
                      !.count = IF job.status # "closed" THEN 1 ELSE 0]]
    /\ UNCHANGED <<edit, edits>>
    /\ UNCHANGED outside_jobs

NextJobs ==
    \/ \E p \in Procs, u \in JobUsers, t \in Titles : EditLoad(p, u, t)
    \/ \E p \in Procs : EditSave(p)
    \/ \E s \in Staffs, a \in {"approve", "reject"} : StartReview(s, a)
    \/ \E s \in Staffs : ReviewJob(s)
    \/ \E s \in Staffs : close_jobs(s)

InitJobs == Init /\ users[AccountEmail].failed_login_attempts = 0

\* edit requests of the users and admin actions of the staff, interleaved
SpecJobs == InitJobs /\ [][NextJobs]_vars

(***************************************************************************)
(* The lockout message: User.get_lockout_remaining, in seconds.            *)
(***************************************************************************)
\* int(x / y) of Python for integers x and y > 0: the quotient truncated
\* towards zero
Trunc(x, y) == IF x >= 0 THEN x \div y ELSE -((-x) \div y)

\* models.py:192-197: User.get_lockout_remaining; t1 and t2 are the two
\* readings of timezone.now()
get_lockout_remaining(until, t1, t2) ==
    IF until # NoTime /\ until > t1
    THEN Trunc(until - t2, 60) + 1
    ELSE 0

\* models.py:170-177: the failure that locks the account sets lockout_until
LockAccount(n) ==
    /\ lock_until = NoTime \/ lock_until <= clock
    /\ lock_until' = clock + 60 * LockoutMinutes(n)
    /\ remaining' = NoRemaining
    /\ UNCHANGED <<clock, advances>>
    /\ UNCHANGED <<logindb, procvars, ratevars, resetvars, contactvars, jobvars, inflight>>

\* forms.py:218-219: user.get_lockout_remaining() for the account_locked message
CallGetLockoutRemaining(skew) ==
    /\ remaining = NoRemaining
    /\ remaining' = [seconds |-> IF lock_until = NoTime THEN 0 ELSE lock_until - (clock + skew),
                     locked |-> lock_until # NoTime /\ lock_until > clock,
                     minutes |-> get_lockout_remaining(lock_until, clock, clock + skew)]
    /\ clock' = clock + skew
    /\ UNCHANGED <<lock_until, advances>>
    /\ UNCHANGED <<logindb, procvars, ratevars, resetvars, contactvars, jobvars, inflight>>

\* time passes
SecondsPass(d) ==
    /\ advances < MaxAdvances
    /\ advances' = advances + 1
    /\ clock' = clock + d
    /\ remaining' = NoRemaining
    /\ UNCHANGED lock_until
    /\ UNCHANGED <<logindb, procvars, ratevars, resetvars, contactvars, jobvars, inflight>>

NextRemaining ==
    \/ \E n \in LockingCounts : LockAccount(n)
    \/ \E k \in Skews : CallGetLockoutRemaining(k)
    \/ \E d \in SecondSteps : SecondsPass(d)

InitRemaining == Init /\ users[AccountEmail].failed_login_attempts = 0

\* get_lockout_remaining asked about an account at moments a lock may cover
SpecRemaining == InitRemaining /\ [][NextRemaining]_vars

(***************************************************************************)
(* Vocabulary of the properties.                                           *)
(***************************************************************************)
Account == users[AccountEmail]

\* the request of p has been answered and has evaluated the credentials
Answered(p) == pc[p] = "done" /\ res[p] # "redirect"

\* the submitted identity, trimmed and lowercased, is an account
Resolves(p) == FormEmail(p) \in DOMAIN users

WrongPassword(p) == ~check_password(req[p].password, Account.password)

\* the account was locked when the request of p arrived
PreLocked(p) == is_locked(pre[p], t0[p])

\* the lock fields of the account are as the request of p found them
LockFieldsUntouched(p) ==
    /\ Account.failed_login_attempts = pre[p].failed_login_attempts
    /\ Account.lockout_until = pre[p].lockout_until

InFlight == {"clean", "authenticate", "get_failed", "record_failed", "log_failure",
             "log_success"}

(***************************************************************************)
(* Properties, requests handled one at a time (SpecSeq) unless said.       *)
(***************************************************************************)

\* C1: an active, unlocked account with failed_attempts = 4 that gets one
\* wrong password answers invalid_credentials, and is left with
\* failed_attempts = 5 and locked_until = time of the attempt + 5 minutes.
C1_FifthFailureLocks ==
    \A p \in Procs :
        (/\ Answered(p) /\ Resolves(p) /\ WrongPassword(p)
         /\ pre[p].is_active /\ ~PreLocked(p)
         /\ pre[p].failed_login_attempts = 4)
        => /\ res[p] = "invalid_credentials"
           /\ Account.failed_login_attempts = 5
           /\ Account.lockout_until = t0[p] + 5

C1_Witness ==
    \E p \in Procs :
        /\ Answered(p) /\ Resolves(p) /\ WrongPassword(p)
        /\ pre[p].is_active /\ ~PreLocked(p)
        /\ pre[p].failed_login_attempts = 4
        /\ Account.failed_login_attempts = 5
        /\ t0[p] > 0

\* C2: in every reachable state, requests interleaved (Spec), lockout_until
\* is set only if failed_login_attempts >= 5, and is unset whenever
\* failed_login_attempts is 0.
C2_LockFieldsRelated ==
    /\ Account.lockout_until # NoTime => Account.failed_login_attempts >= 5
    /\ Account.failed_login_attempts = 0 => Account.lockout_until = NoTime

\* two overlapping failures: the second was counted although the first locked
C2_Witness ==
    /\ now = 0
    /\ Account.failed_login_attempts = 6
    /\ Account.lockout_until = 10

\* C3: a login with the correct password on an active, unlocked account
\* succeeds, and a successful login leaves failed_attempts = 0, locked_until
\* unset, last_login = the time of the login and last_login_ip = the client
\* address, whatever the counter and lock were before.
C3_SuccessResets ==
    \A p \in Procs :
        /\ (/\ Answered(p) /\ Resolves(p) /\ ~WrongPassword(p)
            /\ pre[p].is_active /\ ~PreLocked(p))
           => res[p] = "success"
        /\ (pc[p] = "done" /\ res[p] = "success")
           => /\ Account.failed_login_attempts = 0
              /\ Account.lockout_until = NoTime
              /\ Account.last_login = t0[p]
              /\ Account.last_login_ip = ClientIP(p)

\* a success on an account whose lock has expired and whose counter is at 5
C3_Witness ==
    \E p \in Procs :
        /\ pc[p] = "done" /\ res[p] = "success"
        /\ pre[p].failed_login_attempts >= 5
        /\ pre[p].lockout_until # NoTime
        /\ Account.failed_login_attempts = 0

\* C4: while the account is locked every login attempt for it, the correct
\* password included, answers account_locked and leaves failed_attempts and
\* locked_until as they were.
C4_LockedRejects ==
    \A p \in Procs :
        (Answered(p) /\ Resolves(p) /\ PreLocked(p))
        => /\ res[p] = "account_locked"
           /\ LockFieldsUntouched(p)

C4_Witness ==
    \E p \in Procs :
        /\ Answered(p) /\ Resolves(p) /\ PreLocked(p)
        /\ ~WrongPassword(p)
        /\ res[p] = "account_locked"

\* C5: every evaluated login attempt writes exactly one LoginHistory row on
\* every path, requests interleaved (Spec): the rows written plus the
\* requests that have not reached their write yet are the attempts made.
C5_OneRowPerAttempt ==
    /\ BagCardinality(history) + Cardinality({p \in Procs : pc[p] \in InFlight}) = attempts
    /\ \A p \in Procs : Answered(p) => BagIn(logged[p], history)

C5_Witness ==
    /\ \A p \in Procs : pc[p] = "idle"
    /\ attempts = 2
    /\ BagCardinality(history) = 2
    /\ \E r \in BagToSet(history) : r.success
    /\ \E r \in BagToSet(history) : r.failure_reason = "account_inactive"

\* C6 as claimed: a 6th wrong password sent while the lock of the 5th is
\* still running leaves locked_until at least 10 minutes after that attempt.
C6_Original ==
    \A p \in Procs :
        (/\ Answered(p) /\ Resolves(p) /\ WrongPassword(p)
         /\ pre[p].failed_login_attempts = 5 /\ PreLocked(p))
        => Account.lockout_until >= t0[p] + 10

\* C6 amended: with the counter at 5, a wrong password sent while the lock
\* is running answers account_locked and changes neither field; sent after
\* the lock has expired (active account) it is the 6th failure and sets
\* locked_until to 10 minutes after the attempt.
C6_SixthFailure ==
    \A p \in Procs :
        (/\ Answered(p) /\ Resolves(p) /\ WrongPassword(p)
         /\ pre[p].failed_login_attempts = 5)
        => /\ PreLocked(p) => (res[p] = "account_locked" /\ LockFieldsUntouched(p))
           /\ (~PreLocked(p) /\ pre[p].is_active)
              => /\ res[p] = "invalid_credentials"
                 /\ Account.failed_login_attempts = 6
                 /\ Account.lockout_until = t0[p] + 10

C6_Witness ==
    \E p \in Procs :
        /\ Answered(p) /\ Resolves(p) /\ WrongPassword(p)
        /\ pre[p].failed_login_attempts = 5
        /\ pre[p].lockout_until # NoTime /\ ~PreLocked(p)
        /\ Account.failed_login_attempts = 6

\* the durations the lockout is documented to have, by the counter's new value
ExpectedMinutes(n) ==
    CASE n = 5 -> 5
      [] n = 6 -> 10
      [] n = 7 -> 20
      [] n = 8 -> 40
      [] OTHER -> 60

C8_Claim ==
    \A p \in Procs :
        (/\ Answered(p) /\ Resolves(p) /\ WrongPassword(p)
         /\ pre[p].is_active /\ ~PreLocked(p))
        => logged[p].failure_reason = "invalid_credentials"

\* C9 as claimed: every attempt on an inactive account answers
\* account_inactive, is logged as account_inactive and leaves the counter.
C9_Claim ==
    \A p \in Procs :
        (Answered(p) /\ Resolves(p) /\ ~pre[p].is_active)
        => /\ res[p] = "account_inactive"
           /\ logged[p].failure_reason = "account_inactive"
           /\ Account.failed_login_attempts = pre[p].failed_login_attempts

\* C10 as claimed: a row has no account reference exactly when its attempted
\* identity is no account, and otherwise references that account.
C10_Claim ==
    \A r \in BagToSet(history) :
        LET k == GetUser(users, Lower(Strip(r.email_attempted)))
        IN  r.user = k

(***************************************************************************)
(* Properties of the rate limiter (SpecRate).                              *)
(***************************************************************************)
\* the calls made for the key k, in order
CallsOf(k) == calls[k]

LimitOf(k) == RATE_LIMITS[k[2]].limit
WindowOf(k) == RATE_LIMITS[k[2]].window

\* the start of the window the i-th call of s falls into: the first call
\* opens a window, and so does every call that comes more than W seconds
\* after the start of the window before it
RECURSIVE WindowStart(_, _, _)
WindowStart(s, i, W) ==
    IF i = 1 THEN s[1].at
    ELSE LET before == WindowStart(s, i - 1, W)
         IN  IF s[i].at - before > W THEN s[i].at ELSE before

\* the place of the i-th call of s among the calls of its window
PlaceInWindow(s, i, W) ==
    Cardinality({j \in 1..i : WindowStart(s, j, W) = WindowStart(s, i, W)})

\* C11: for every key with limit L and window W, the first L calls inside
\* one window are allowed and every further call inside it is denied; the
\* first call that comes more than W seconds after the start of the window
\* is allowed and restarts the window with the counter at 1.
C11_FixedWindow ==
    \A k \in CacheKeys :
        LET s == CallsOf(k)
        IN  /\ \A i \in 1..Len(s) :
                  s[i].limited <=> PlaceInWindow(s, i, WindowOf(k)) > LimitOf(k)
            /\ Len(s) > 0 =>
                  /\ cache[k].start = WindowStart(s, Len(s), WindowOf(k))
                  /\ cache[k].count = PlaceInWindow(s, Len(s), WindowOf(k))

\* the login key of one address: five calls allowed, the sixth denied, and a
\* seventh, more than 60 seconds after the first, allowed with the counter at 1
C11_Witness ==
    LET k == CacheKey("accounts:login", "10.0.0.1")
        s == CallsOf(k)
    IN  /\ Len(s) = 7
        /\ \A i \in 1..5 : ~s[i].limited
        /\ s[6].limited
        /\ s[7].at - s[1].at > 60
        /\ ~s[7].limited
        /\ cache[k].count = 1 /\ cache[k].start = s[7].at

\* C12: every POST to the login, registration and reset-request endpoints
\* is counted by the rate limiter before its view runs (so the key of a POST
\* that reached its view has an entry in the cache), and a POST the limiter
\* denies never reaches the view.
C12_Claim ==
    (http.method = "POST" /\ http.url_name \in DOMAIN RATE_LIMITS)
    => /\ http.reached_view =>
             /\ cache[CacheKey(http.url_name, http.ip)] # Nothing
             /\ cache[CacheKey(http.url_name, http.ip)].count >= 1
       /\ http.status \in {403, 429} => ~http.reached_view

\* the number of calls of s that were allowed at a time in [t, t + W)
AllowedFrom(s, t, W) ==
    Cardinality({j \in 1..Len(s) : ~s[j].limited /\ t <= s[j].at /\ s[j].at < t + W})

\* the number of calls of s that were allowed in the window of the i-th call
AllowedInWindow(s, i, W) ==
    Cardinality({j \in 1..Len(s) :
                    ~s[j].limited /\ WindowStart(s, j, W) = WindowStart(s, i, W)})

\* C13 as stated: for every key, every interval of window_seconds, wherever
\* it starts, holds at most `limit` allowed requests.
C13_Original ==
    \A k \in CacheKeys :
        \A i \in 1..Len(CallsOf(k)) :
            AllowedFrom(CallsOf(k), CallsOf(k)[i].at, WindowOf(k)) <= LimitOf(k)

\* C13: for every key, each window the limiter has opened holds at most
\* `limit` allowed requests, and an interval of window_seconds, wherever it
\* starts, holds at most twice `limit` allowed requests.
C13_FixedWindowBound ==
    \A k \in CacheKeys :
        \A i \in 1..Len(CallsOf(k)) :
            /\ AllowedInWindow(CallsOf(k), i, WindowOf(k)) <= LimitOf(k)
            /\ AllowedFrom(CallsOf(k), CallsOf(k)[i].at, WindowOf(k)) <= 2 * LimitOf(k)

\* an interval of one window that lies across a restart of the counter and
\* holds more allowed requests than the limit
C13_Witness ==
    \E k \in CacheKeys :
        \E i \in 1..Len(CallsOf(k)) :
            /\ AllowedFrom(CallsOf(k), CallsOf(k)[i].at, WindowOf(k)) > LimitOf(k)
            /\ WindowStart(CallsOf(k), i, WindowOf(k))
                   # WindowStart(CallsOf(k), Len(CallsOf(k)), WindowOf(k))

(***************************************************************************)
(* Properties of the password reset workflow, one handler at a time        *)
(* (SpecResetSeq) unless said.                                             *)
(***************************************************************************)
\* the pending requests of an account
PendingOf(reqs, user) ==
    {pk \in DOMAIN reqs : reqs[pk].user = user /\ reqs[pk].status = "pending"}

\* the submitted emails that are, and that are not, the email of an account
Resolving == {e \in RawEmails : form_user(users, e) # NoUser}
Unresolving == {e \in RawEmails : form_user(users, e) = NoUser}

\* C14: in every state of the store, a reset-request submission shows the
\* same thing whether or not the submitted identity is that of an account,
\* and no row is ever created for an identity that is not.
C14_Claim ==
    /\ \A r \in Reasons, known \in Resolving, unknown \in Unresolving :
          reset_response(users, requests, known, r)
              = reset_response(users, requests, unknown, r)
    /\ \A pk \in DOMAIN requests : requests[pk].user \in DOMAIN users

\* the step in which the form of p is validated / saved
CleanStep(p) == form[p].pc = "clean" /\ form'[p].pc # "clean"
SaveStep(p) == form[p].pc = "save" /\ form'[p].pc # "save"

\* C15: a well-formed submission for an account that has no pending request
\* goes on to create exactly one pending request, the only pending one of
\* the account, and shows the success message; a submission for an account
\* that has a pending request is answered with the duplicate-pending error
\* and creates no row.
C15_SecondSubmissionRejected ==
    [][\A p \in Procs :
          LET u == form_user(users, form[p].email)
          IN  /\ (CleanStep(p) /\ u # NoUser /\ Len(form[p].reason) >= 10)
                  => IF HasPending(requests, u)
                     THEN /\ form'[p].pc = "done"
                          /\ form'[p].res = "duplicate_pending"
                          /\ requests' = requests
                     ELSE /\ form'[p].pc = "save"
                          /\ form'[p].user = u
                          /\ requests' = requests
              /\ (SaveStep(p) /\ form[p].user # NoUser)
                  => /\ requests' = Append(requests, NewRequest(form[p].user))
                     /\ PendingOf(requests', form[p].user) = {Len(requests')}
                     /\ form'[p].pc = "done"
                     /\ form'[p].res = "success_message"]_vars

\* a second submission for the account has been answered with the error
\* while the request of the first is the one pending row of the table
C15_Witness ==
    \E p \in Procs :
        /\ form[p].pc = "done" /\ form[p].res = "duplicate_pending"
        /\ Len(requests) = 1
        /\ PendingOf(requests, AccountEmail) = {1}

\* C16: in every reachable state, submissions for the same account running
\* concurrently included, an account has at most one pending request
\* (SpecReset).
C16_Claim ==
    \A u \in DOMAIN users : Cardinality(PendingOf(requests, u)) <= 1

\* the step in which the admin action of s handles the next instance
TurnOf(s, action) ==
    /\ admin[s].pc = "loop" /\ admin[s].action = action /\ admin[s].todo # <<>>
    /\ admin'[s].todo = Tail(admin[s].todo)

\* the passwords that validate against one of the hashes of ret
ValidAgainst(ret) ==
    {w \in Passwords \cup {TempPassword(n) : n \in 1..Cardinality(ret)} :
        \E h \in ret : check_password(w, h)}

\* C17: when a staff member approves a pending request with a temporary
\* password, the request is left approved, with that staff member as
\* processed_by, processed_at the time of the approval and
\* temp_password_expires 24 hours later, and the password of the account
\* validates against the temporary password and against none of the
\* passwords the account had before.
C17_ApproveSetsTemp ==
    [][\A s \in Staffs :
          TurnOf(s, "approve") =>
              LET pk == Head(admin[s].todo).pk
                  r == requests'[pk]
                  temp == admin'[s].shown
              IN  /\ requests[pk].status = "pending"
                  /\ r.status = "approved"
                  /\ r.processed_by = s
                  /\ r.processed_at = now
                  /\ r.temp_password_expires = r.processed_at + 24 * 60
                  /\ temp # ""
                  /\ check_password(temp, r.temp_password_hash)
                  /\ check_password(temp, users'[r.user].password)
                  /\ users'[r.user].last_password_change = now
                  /\ users[r.user].password \in retired'
                  /\ \A w \in ValidAgainst(retired') :
                        ~check_password(w, users'[r.user].password)]_vars

\* a request has been approved and the account answers to the temporary
\* password the staff member was shown, no longer to its own
C17_Witness ==
    \E s \in Staffs, pk \in DOMAIN requests :
        /\ admin[s].pc = "loop" /\ admin[s].shown # ""
        /\ requests[pk].status = "approved" /\ requests[pk].processed_by = s
        /\ check_password(admin[s].shown, users[AccountEmail].password)
        /\ ~check_password("pw1", users[AccountEmail].password)

\* C18: rejecting a pending request leaves it rejected, with the staff
\* member as processed_by, processed_at the time of the rejection and the
\* reason in admin_notes; the account (password hash and
\* last_password_change included) and the temp_password fields of the
\* request are as before.
C18_RejectFrame ==
    [][\A s \in Staffs :
          TurnOf(s, "reject") =>
              LET pk == Head(admin[s].todo).pk
                  r == requests'[pk]
              IN  /\ requests[pk].status = "pending"
                  /\ r.status = "rejected"
                  /\ r.processed_by = s
                  /\ r.processed_at = now
                  /\ r.admin_notes = RejectReason
                  /\ users' = users
                  /\ retired' = retired
                  /\ r.temp_password_hash = requests[pk].temp_password_hash
                  /\ r.temp_password_expires = requests[pk].temp_password_expires]_vars

\* a request has been rejected, after an earlier one was approved: the
\* account still has the password of that approval
C18_Witness ==
    \E s \in Staffs, pk \in DOMAIN requests :
        /\ requests[pk].status = "rejected" /\ requests[pk].processed_by = s
        /\ requests[pk].admin_notes = RejectReason
        /\ requests[pk].temp_password_hash = <<>>
        /\ users[AccountEmail].last_password_change # NoTime
        /\ users[AccountEmail].last_password_change < requests[pk].processed_at

\* C19: a request that has left pending stays as it is: approve or reject
\* invoked on it again changes neither its status, processed_by and
\* processed_at nor the password of the account (SpecReset).
C19_Claim ==
    [][\A pk \in DOMAIN requests :
          requests[pk].status # "pending" =>
              /\ requests'[pk].status = requests[pk].status
              /\ requests'[pk].processed_by = requests[pk].processed_by
              /\ requests'[pk].processed_at = requests[pk].processed_at
              /\ \A s \in Staffs :
                    (admin[s].todo # <<>> /\ Head(admin[s].todo).pk = pk
                     /\ admin'[s].todo = Tail(admin[s].todo))
                    => users'[requests[pk].user].password
                           = users[requests[pk].user].password]_vars

(***************************************************************************)
(* Properties of the responses of LoginView (SpecSeq).                     *)
(***************************************************************************)
\* C20: a login attempt for an email that is not that of an account, and
\* one for an active, unlocked account with a wrong password, are answered
\* with the same error.
C20_SameFailure ==
    \A p \in Procs :
        Answered(p) =>
            /\ ~Resolves(p) => res[p] = "invalid_credentials"
            /\ (Resolves(p) /\ WrongPassword(p) /\ pre[p].is_active /\ ~PreLocked(p))
                   => res[p] = "invalid_credentials"

\* an attempt for an unknown email has been answered, after one with a
\* wrong password for the account was
C20_Witness ==
    \E p \in Procs :
        /\ Answered(p) /\ ~Resolves(p) /\ res[p] = "invalid_credentials"
        /\ BagIn(HistoryRow(NoUser, "a@x.io", FALSE, "invalid_credentials"), history)

(***************************************************************************)
(* Properties of the contact form (SpecContact).                           *)
(***************************************************************************)
\* the rows of an address created in the hour that ends at t, both ends included
RowsInHourTo(ip, t) ==
    {i \in DOMAIN submissions : /\ submissions[i].ip_address = ip
                                /\ submissions[i].created_at >= t - 60
                                /\ submissions[i].created_at <= t}

\* C21: a submission is answered with 429, and not stored, exactly when its
\* address is not empty and at least 5 rows of that address were created
\* within the hour before it (otherwise it is stored, or turned down with
\* 400 for what it contains); so no address ever has a 6th row within an
\* hour.
C21_ContactLimit ==
    /\ reply.status = 429 =>
          /\ reply.ip # ""
          /\ Cardinality(RowsInHourTo(reply.ip, reply.at)) >= 5
    /\ reply.status = 200 =>
          /\ submissions # <<>>
          /\ submissions[Len(submissions)] = [ip_address |-> reply.ip, created_at |-> reply.at]
          /\ reply.ip # "" => Cardinality(RowsInHourTo(reply.ip, reply.at)) <= 5
    /\ (reply.status = 400 /\ reply.ajax /\ reply.ip # "") =>
          Cardinality(RowsInHourTo(reply.ip, reply.at)) < 5
    /\ \A i \in DOMAIN submissions :
          submissions[i].ip_address # "" =>
              Cardinality(RowsInHourTo(submissions[i].ip_address,
                                       submissions[i].created_at + 60)) <= 5

\* five rows of one address, a sixth submission exactly an hour after them
\* answered with 429
C21_Witness ==
    /\ reply.status = 429 /\ reply.ip = "10.0.0.1" /\ reply.at = 60
    /\ Cardinality({i \in DOMAIN submissions : submissions[i].ip_address = "10.0.0.1"}) = 5
    /\ \A i \in DOMAIN submissions : submissions[i].created_at = 0


(***************************************************************************)
(* C22: once the job post is approved, rejected or closed, no edit request *)
(* of a user, the owner's included and one bound while the post was still  *)
(* pending included, changes its content, its status, reviewed_by or       *)
(* reviewed_at.                                                            *)
(***************************************************************************)
C22_Claim ==
    [][(job.status \notin {"draft", "pending"} /\ edit' # edit)
          => /\ job'.title = job.title
             /\ job'.status = job.status
             /\ job'.reviewed_by = job.reviewed_by
             /\ job'.reviewed_at = job.reviewed_at]_vars


(***************************************************************************)
(* C23: the read-modify-write of failed_login_attempts is not atomic: the  *)
(* value a failed attempt stores is the value it loaded plus one, whatever *)
(* the row holds by then, so two simultaneous wrong-password attempts can  *)
(* load the same value and both store that value plus one.                 *)
(***************************************************************************)
C23_StoresLoadedPlusOne ==
    [][\A p \in Procs :
          (pc[p] = "record_failed" /\ pc'[p] = "log_failure")
             => users'[AccountEmail].failed_login_attempts
                   = user_obj[p].failed_login_attempts + 1]_vars

\* the lost update: the only two attempts so far have both recorded their
\* failure, and both stored the same value, which the row still holds
C23_Witness ==
    /\ attempts = 2
    /\ \A p \in Procs : pc[p] = "log_failure" /\ res[p] = "invalid_credentials"
    /\ user_obj["c1"].failed_login_attempts = 2
    /\ user_obj["c2"].failed_login_attempts = 2
    /\ users[AccountEmail].failed_login_attempts = 2


(***************************************************************************)
(* C24: for a locked account get_lockout_remaining is the remaining        *)
(* seconds divided by 60 and rounded up, for every positive number of      *)
(* remaining seconds, exact multiples of 60 included; for an account that  *)
(* is not locked it is 0.                                                  *)
(***************************************************************************)
Ceil(x, y) == (x + y - 1) \div y

C24_Claim ==
    remaining # NoRemaining
       => IF remaining.locked
          THEN remaining.seconds > 0 => remaining.minutes = Ceil(remaining.seconds, 60)
          ELSE remaining.minutes = 0


(***************************************************************************)
(* C25: with the requests for one key interleaved between cache.get and    *)
(* cache.set, the counter mis-counts by at most one request: each window   *)
(* holds at most limit + 1 allowed requests.                               *)
(***************************************************************************)
C25_Claim ==
    \A k \in CacheKeys :
        \A i \in 1..Len(CallsOf(k)) :
            AllowedInWindow(CallsOf(k), i, WindowOf(k)) <= LimitOf(k) + 1


C27_Claim ==
    [][\A pk \in DOMAIN requests :
          LET before == requests[pk]
              after == requests'[pk]
          IN  /\ before.status # "pending"
                    => /\ after.status = before.status
                       /\ after.processed_by = before.processed_by
              /\ before.temp_password_hash # <<>>
                    => after.temp_password_hash = before.temp_password_hash
              /\ (after.status = "rejected" /\ before.status # "rejected")
                    => /\ before.status = "pending"
                       /\ before.temp_password_hash = <<>>]_vars


(***************************************************************************)
(* C28: no step of a login attempt that presents the correct password of   *)
(* the active account increments failed_login_attempts or sets or extends  *)
(* lockout_until, however the other login attempts interleave with it      *)
(* (SpecLogins).                                                           *)
(***************************************************************************)
C28_CorrectNeverCharged ==
    [][\A p \in Procs :
          (/\ pc'[p] # pc[p]
           /\ pc[p] # "idle"
           /\ FormEmail(p) = AccountEmail
           /\ check_password(req[p].password, users[AccountEmail].password)
           /\ users[AccountEmail].is_active)
          => /\ users'[AccountEmail].failed_login_attempts
                   <= users[AccountEmail].failed_login_attempts
             /\ users'[AccountEmail].lockout_until
                   \in {users[AccountEmail].lockout_until, NoTime}]_vars

\* the attempt of c1 with the correct password has succeeded although the
\* wrong password of c2, evaluated at the same time, locked the account
C28_Witness ==
    /\ now = 0
    /\ pc["c1"] = "done" /\ res["c1"] = "success"
    /\ FormEmail("c1") = AccountEmail /\ req["c1"].password = "pw1"
    /\ pc["c2"] = "done" /\ res["c2"] = "invalid_credentials"
    /\ user_obj["c2"].failed_login_attempts = LockThreshold
    /\ users[AccountEmail].failed_login_attempts = 0
    /\ users[AccountEmail].lockout_until = NoTime


(***************************************************************************)
(* C29: approving a request, with a temporary password or without one,     *)
(* leaves failed_login_attempts, lockout_until and is_active of the        *)
(* account as they are: an account that is locked when the request is      *)
(* approved is still locked after the approval (SpecResetLocked).          *)
(***************************************************************************)
LockState(u) ==
    [failed_login_attempts |-> u.failed_login_attempts,
     lockout_until |-> u.lockout_until,
     is_active |-> u.is_active]

C29_ApproveFrame ==
    [][\A s \in Staffs :
          TurnOf(s, "approve") =>
              LET k == Head(admin[s].todo).inst.user
              IN  /\ admin'[s].shown # ""
                  /\ LockState(users'[k]) = LockState(users[k])
                  /\ is_locked(users[k], now) => is_locked(users'[k], now')
                  /\ LockState(approve_user(users[k], "", now)) = LockState(users[k])]_vars

\* a request has been approved five minutes after the sixth failure locked
\* the account for ten: the account answers to the temporary password and
\* is still locked
C29_Witness ==
    \E s \in Staffs :
        /\ admin[s].pc = "loop" /\ admin[s].shown # ""
        /\ check_password(admin[s].shown, users[AccountEmail].password)
        /\ now = 5
        /\ users[AccountEmail].last_password_change = 5
        /\ users[AccountEmail].failed_login_attempts = 6
        /\ users[AccountEmail].lockout_until = 10
        /\ is_locked(users[AccountEmail], now)


(***************************************************************************)
(* C30: the login never looks at temp_password_hash or                     *)
(* temp_password_expires of a request: as long as the password of the      *)
(* account is the one an approval set, a login with that temporary         *)
(* password to the active, unlocked account succeeds, whatever the time,   *)
(* also after temp_password_expires (SpecTempLogin).                       *)
(***************************************************************************)
C30_TempNeverExpires ==
    \A p \in Procs :
        (/\ Answered(p)
         /\ Resolves(p)
         /\ pre[p].is_active /\ ~PreLocked(p)
         /\ \E pk \in DOMAIN requests :
               /\ requests[pk].status = "approved"
               /\ requests[pk].temp_password_hash = users[FormEmail(p)].password
               /\ check_password(req[p].password, requests[pk].temp_password_hash))
        => res[p] = "success"

\* a login with the temporary password has succeeded more than 24 hours
\* after the approval that issued it
C30_Witness ==
    \E pk \in DOMAIN requests :
        /\ requests[pk].status = "approved"
        /\ t0["c1"] > requests[pk].temp_password_expires
        /\ pc["c1"] = "done" /\ res["c1"] = "success"
        /\ req["c1"].password = TempPassword(1)
        /\ check_password(req["c1"].password, requests[pk].temp_password_hash)
        /\ check_password(req["c1"].password, users[AccountEmail].password)

=============================================================================
